---- MODULE Spec2Model ----
(***************************************************************************)
(* Model of src/stl.py: class STL, a reader of binary STL files.           *)
(*                                                                         *)
(* A process constructs readers one after the other.  Constructing a       *)
(* reader runs __init__, which checks the extension, opens the file and    *)
(* runs the decode pass (_calculateDimensions).  The four result lists are *)
(* class attributes of STL (lines 15-18) that no method ever rebinds on an *)
(* instance, so every reader appends to and returns the same four list     *)
(* objects; the scalars are rebound on the instance by assignment and are  *)
(* per reader.                                                             *)
(*                                                                         *)
(* Numbers.  The coordinates are floats.  A float is modelled as an        *)
(* integer count of units of 2^-FracBits that carries Precision            *)
(* significant bits; every arithmetic operation rounds its exact result    *)
(* to the nearest such value, ties to even, as IEEE-754 arithmetic does    *)
(* (with 53 bits).  Infinities and NaN are not modelled: the file's values *)
(* are finite, and no operation of the pass overflows a double on finite   *)
(* single-precision inputs.                                                *)
(*                                                                         *)
(* Files.  A reader reads its file once, front to back, so the content of  *)
(* the file is drawn when it is read: the count by ReadLength, each record *)
(* (or the place where the file ends inside it) by ReadTriangle.  input[k] *)
(* records what reader k has consumed.                                     *)
(***************************************************************************)
EXTENDS Integers, Sequences, FiniteSets, TLC

VARIABLES
    normals,      \* STL._normals   (class attribute, one list object)
    vertices,     \* STL._vertices  (class attribute, one list object)
    triangles,    \* STL._triangles (class attribute, one list object)
    bytecount,    \* STL._bytecount (class attribute, one list object)
    readers,      \* the STL instances constructed so far, in order
    input,        \* input[k]: what reader k has consumed of its file
    volFwd,       \* volume accumulated over a mesh
    volRev,       \* volume accumulated over the same mesh, windings reversed
    volN,         \* number of triangles of that mesh folded so far
    volExact      \* no operation on that mesh has rounded so far

vars == <<normals, vertices, triangles, bytecount, readers, input,
          volFwd, volRev, volN, volExact>>

readerVars == <<normals, vertices, triangles, bytecount, readers, input>>
volVars == <<volFwd, volRev, volN, volExact>>

----------------------------------------------------------------------------
(* Bounds *)

MaxReaders == 2
MaxTriangles == 2
MaxPathLen == 4
Precision == 3
FracBits == 3

----------------------------------------------------------------------------
(* Float arithmetic *)

Unit == 2^FracBits

\* the least e >= 0 with n/d < 2^(Precision+e), for n, d > 0
RECURSIVE Exponent(_, _, _)
Exponent(n, d, e) ==
    IF n < d * 2^(Precision + e) THEN e ELSE Exponent(n, d, e + 1)

\* n/d (n, d > 0) rounded to Precision significant bits, ties to even
RoundPos(n, d) ==
    LET e == Exponent(n, d, 0)
        q == d * 2^e
        m == n \div q
        r == n % q
    IN  IF 2 * r < q THEN m * 2^e
        ELSE IF 2 * r > q THEN (m + 1) * 2^e
        ELSE (IF m % 2 = 0 THEN m ELSE m + 1) * 2^e

Round(n, d) ==
    IF n = 0 THEN 0 ELSE IF n > 0 THEN RoundPos(n, d) ELSE -RoundPos(-n, d)

FAdd(a, b) == Round(a + b, 1)
FSub(a, b) == Round(a - b, 1)
FMul(a, b) == Round(a * b, Unit)
FDiv(a, k) == Round(a, k)

\* the float 1.0 / 6.0 of line 177
Sixth == Round(Unit, 6)

----------------------------------------------------------------------------
(* Paths *)

Chars == {".", "s", "S", "t", "T", "l", "L"}

LowerChar(c) ==
    CASE c = "S" -> "s"
      [] c = "T" -> "t"
      [] c = "L" -> "l"
      [] OTHER -> c

LowerIdentity(s) == s

\* str.lower()
Lower(s) == [k \in 1..Len(s) |-> LowerChar(s[k])]

\* str.endswith(suffix)
EndsWith(s, suffix) ==
    /\ Len(s) >= Len(suffix)
    /\ SubSeq(s, Len(s) - Len(suffix) + 1, Len(s)) = suffix

DotStl == <<".", "s", "t", "l">>

----------------------------------------------------------------------------
(* The class STL *)

InvalidExtension == 1
OpenFailed == 2

\* a fresh instance: every attribute read falls back to the class attribute.
\* file is the handle self._file ("none": never assigned), i the loop variable
\* of _calculateDimensions, pc where the construction stands: "calc" (about
\* to read the count), "loop" (in the loop over the triangles), "returned"
\* (__init__ returned) or "raised" (an exception left __init__)
NewReader(p) ==
    [ path |-> p, failed |-> FALSE, errorCode |-> 1, file |-> "none",
      centroid |-> <<0, 0, 0>>, numberOfTriangles |-> 0, volume |-> 0,
      width |-> 0, height |-> 0, depth |-> 0,
      xPos |-> 0, xNeg |-> 0, yPos |-> 0, yNeg |-> 0, zPos |-> 0, zNeg |-> 0,
      i |-> 0, pc |-> "init" ]

\* what a reader has consumed of its file: the count (once read), the complete
\* records, the fields of the record the file ends in, and whether a read
\* has hit the end of the file
NoInput ==
    [ hasCount |-> FALSE, count |-> 0, recs |-> <<>>, part |-> <<>>,
      eof |-> FALSE ]

GetNormals(k) == normals
GetVertices(k) == vertices
GetTriangles(k) == triangles
GetByteCount(k) == bytecount
GetCentroid(k) == readers[k].centroid
GetNumberOfTriangles(k) == readers[k].numberOfTriangles
GetVolume(k) == readers[k].volume
GetWidth(k) == readers[k].width
GetHeight(k) == readers[k].height
GetDepth(k) == readers[k].depth
GetDimensions(k) == <<readers[k].width, readers[k].height, readers[k].depth>>

\* _calculateCentroid
CalculateCentroid(r, vertex) ==
    IF r.centroid = <<0, 0, 0>>
    THEN [r EXCEPT !.centroid = vertex]
    ELSE [r EXCEPT !.centroid =
            << FDiv(FAdd(r.centroid[1], vertex[1]), 2),
               FDiv(FAdd(r.centroid[2], vertex[2]), 2),
               FDiv(FAdd(r.centroid[3], vertex[3]), 2) >>]

ReadVertexMixedAxis(r, vertex) ==
    LET rx == IF vertex[1] >= 0
              THEN (IF vertex[1] > r.xPos THEN [r EXCEPT !.xPos = vertex[1]] ELSE r)
              ELSE (IF vertex[1] < r.xNeg THEN [r EXCEPT !.xNeg = vertex[1]] ELSE r)
        ry == IF vertex[2] >= 0
              THEN (IF vertex[2] > rx.yPos THEN [rx EXCEPT !.yPos = vertex[2]] ELSE rx)
              ELSE (IF vertex[2] < rx.yNeg THEN [rx EXCEPT !.yNeg = vertex[2]] ELSE rx)
        rz == IF vertex[3] >= 0
              THEN (IF vertex[3] > ry.zPos THEN [ry EXCEPT !.zPos = vertex[3]] ELSE ry)
              ELSE (IF vertex[3] < ry.yNeg THEN [ry EXCEPT !.zNeg = vertex[3]] ELSE ry)
    IN  CalculateCentroid(rz, vertex)

\* _readVertex: the six extents, then the centroid
ReadVertex(r, vertex) ==
    LET rx == IF vertex[1] >= 0
              THEN (IF vertex[1] > r.xPos THEN [r EXCEPT !.xPos = vertex[1]] ELSE r)
              ELSE (IF vertex[1] < r.xNeg THEN [r EXCEPT !.xNeg = vertex[1]] ELSE r)
        ry == IF vertex[2] >= 0
              THEN (IF vertex[2] > rx.yPos THEN [rx EXCEPT !.yPos = vertex[2]] ELSE rx)
              ELSE (IF vertex[2] < rx.yNeg THEN [rx EXCEPT !.yNeg = vertex[2]] ELSE rx)
        rz == IF vertex[3] >= 0
              THEN (IF vertex[3] > ry.zPos THEN [ry EXCEPT !.zPos = vertex[3]] ELSE ry)
              ELSE (IF vertex[3] < ry.zNeg THEN [ry EXCEPT !.zNeg = vertex[3]] ELSE ry)
    IN  CalculateCentroid(rz, vertex)

SignedVolumeSignSlip(volume, vertex1, vertex2, vertex3) ==
    LET vector321 == FMul(FMul(vertex3[1], vertex2[2]), vertex1[3])
        vector231 == FMul(FMul(vertex2[1], vertex3[2]), vertex1[3])
        vector312 == FMul(FMul(vertex3[1], vertex1[2]), vertex2[3])
        vector132 == FMul(FMul(vertex1[1], vertex3[2]), vertex2[3])
        vector213 == FMul(FMul(vertex2[1], vertex1[2]), vertex3[3])
        vector123 == FMul(FMul(vertex1[1], vertex2[2]), vertex3[3])
    IN  FAdd(volume,
             FMul(Sixth,
                  FAdd(FAdd(FSub(FAdd(FAdd(-vector321, vector231),
                                      vector312),
                                 vector132),
                            vector213),
                       vector123)))

\* _signedVolumeOfTriangle: the new value of _volume
SignedVolumeOfTriangle(volume, vertex1, vertex2, vertex3) ==
    LET vector321 == FMul(FMul(vertex3[1], vertex2[2]), vertex1[3])
        vector231 == FMul(FMul(vertex2[1], vertex3[2]), vertex1[3])
        vector312 == FMul(FMul(vertex3[1], vertex1[2]), vertex2[3])
        vector132 == FMul(FMul(vertex1[1], vertex3[2]), vertex2[3])
        vector213 == FMul(FMul(vertex2[1], vertex1[2]), vertex3[3])
        vector123 == FMul(FMul(vertex1[1], vertex2[2]), vertex3[3])
    IN  FAdd(volume,
             FMul(Sixth,
                  FAdd(FSub(FSub(FAdd(FAdd(-vector321, vector231),
                                      vector312),
                                 vector132),
                            vector213),
                       vector123)))

DimensionsSwapped(r) ==
    [r EXCEPT !.width = FSub(r.xNeg, r.xPos),
              !.height = FSub(r.yNeg, r.yPos),
              !.depth = FSub(r.zNeg, r.zPos)]

\* _calculateDimensions, lines 97-99
Dimensions(r) ==
    [r EXCEPT !.width = FSub(r.xPos, r.xNeg),
              !.height = FSub(r.yPos, r.yNeg),
              !.depth = FSub(r.zPos, r.zNeg)]

----------------------------------------------------------------------------
(* Inputs *)

Vec(x, y, z) == <<x * Unit, y * Unit, z * Unit>>

Record(n, a, b, c, attr) ==
    [ normal |-> n, v1 |-> a, v2 |-> b, v3 |-> c, attr |-> attr ]

GoodPath == <<"s", ".", "s", "t", "l">>

\* every path of at most MaxPathLen characters
Paths == UNION { [1..n -> Chars] : n \in 0..MaxPathLen }

SessionPaths == { GoodPath, <<"t", ".", "S", "T", "L">>, <<".", "s", "t">> }

SessionTriangles ==
    { Record(Vec(0, 0, 1), Vec(1, 0, 0), Vec(0, 1, 0), Vec(0, 0, 1), 0),
      Record(Vec(0, 0, -1), Vec(-1, 2, -2), Vec(2, 1, 0), Vec(1, -2, 2), 1) }

PassVertices == { Vec(0, 0, 0), Vec(1, -2, 2), Vec(-1, 2, -2) }

PassTriangles ==
    { Record(Vec(0, 0, 1), a, b, c, 0) : a, b, c \in PassVertices }

VolVertices ==
    { Vec(-1, -1, -1), Vec(-1, -1, 2), Vec(-1, 2, -1), Vec(1, 0, 0),
      Vec(0, 2, 0), Vec(0, 0, 3), Vec(2, -1, 1) }

Counts == -1..MaxTriangles

----------------------------------------------------------------------------
(* Constructing a reader *)

Cur == Len(readers)

Busy == Cur > 0 /\ readers[Cur].pc \in {"calc", "loop"}

\* __init__, lines 70-85: the instance when _calculateDimensions is about to
\* be called, or when __init__ returns without calling it
Construct(filepath, openable) ==
    LET r0 == NewReader(filepath)
        r1 == IF EndsWith(Lower(r0.path), DotStl)
              THEN IF openable
                   THEN [r0 EXCEPT !.file = "open"]
                   ELSE [r0 EXCEPT !.failed = TRUE, !.errorCode = OpenFailed]
              ELSE [r0 EXCEPT !.failed = TRUE, !.errorCode = InvalidExtension]
    IN  [r1 EXCEPT !.pc = IF r1.failed THEN "returned" ELSE "calc"]

New(filepath, openable) ==
    /\ Cur < MaxReaders
    /\ ~Busy
    /\ readers' = Append(readers, Construct(filepath, openable))
    /\ input' = Append(input, NoInput)
    /\ UNCHANGED <<normals, vertices, triangles, bytecount, volVars>>

\* _skipHeader and _readLength: the file holds the count, or ends before it
\* (struct.unpack raises struct.error, which nothing catches)
ReadLength(present, length) ==
    /\ Busy
    /\ readers[Cur].pc = "calc"
    /\ IF present
       THEN /\ readers' = [readers EXCEPT ![Cur].numberOfTriangles = length,
                                          ![Cur].i = 0,
                                          ![Cur].pc = "loop"]
            /\ input' = [input EXCEPT ![Cur].hasCount = TRUE,
                                      ![Cur].count = length]
       ELSE /\ readers' = [readers EXCEPT ![Cur].pc = "raised"]
            /\ input' = [input EXCEPT ![Cur].eof = TRUE]
    /\ UNCHANGED <<normals, vertices, triangles, bytecount, volVars>>

\* one iteration of the loop of _calculateDimensions: _readTriangle on a file
\* that holds the first `avail` of the record's five fields (5: all of them)
ReadTriangle(rec, avail) ==
    /\ Busy
    /\ readers[Cur].pc = "loop"
    /\ readers[Cur].i < readers[Cur].numberOfTriangles
    /\ LET r  == readers[Cur]
           a1 == IF avail >= 2 THEN ReadVertex(r, rec.v1) ELSE r
           a2 == IF avail >= 3 THEN ReadVertex(a1, rec.v2) ELSE a1
           a3 == IF avail >= 4 THEN ReadVertex(a2, rec.v3) ELSE a2
       IN  IF avail = 5
           THEN /\ normals' = Append(normals, rec.normal)
                /\ vertices' = vertices \o <<rec.v1, rec.v2, rec.v3>>
                /\ triangles' = Append(triangles, <<rec.v1, rec.v2, rec.v3>>)
                /\ bytecount' = Append(bytecount, rec.attr)
                /\ readers' = [readers EXCEPT ![Cur] =
                       [a3 EXCEPT !.volume = SignedVolumeOfTriangle(
                                      a3.volume, rec.v1, rec.v2, rec.v3),
                                  !.i = r.i + 1]]
                /\ input' = [input EXCEPT ![Cur].recs = Append(@, rec)]
           ELSE /\ readers' = [readers EXCEPT ![Cur] = [a3 EXCEPT !.pc = "raised"]]
                /\ input' = [input EXCEPT
                       ![Cur].part = SubSeq(<<rec.normal, rec.v1, rec.v2, rec.v3>>,
                                            1, avail),
                       ![Cur].eof = TRUE]
                /\ UNCHANGED <<normals, vertices, triangles, bytecount>>
    /\ UNCHANGED volVars

\* the loop of _calculateDimensions is over: lines 97-99, and __init__ returns
Finish ==
    /\ Busy
    /\ readers[Cur].pc = "loop"
    /\ readers[Cur].i >= readers[Cur].numberOfTriangles
    /\ readers' = [readers EXCEPT ![Cur] =
                      [Dimensions(readers[Cur]) EXCEPT !.pc = "returned"]]
    /\ UNCHANGED <<normals, vertices, triangles, bytecount, input, volVars>>

----------------------------------------------------------------------------
(* The volume of a mesh and of the same mesh with every winding reversed *)

\* a value the float format holds exactly
Representable(n) == Round(n, 1) = n

\* x * y * z as the pass computes it, and whether that is the exact product
Product(x, y, z) == FMul(FMul(x, y), z)

ProductExact(x, y, z) ==
    /\ FMul(x, y) * Unit = x * y
    /\ Product(x, y, z) * Unit * Unit = x * y * z

\* the six signed products of a triangle, in the order they are summed
Terms(v1, v2, v3) ==
    << -Product(v3[1], v2[2], v1[3]), Product(v2[1], v3[2], v1[3]),
       Product(v3[1], v1[2], v2[3]), -Product(v1[1], v3[2], v2[3]),
       -Product(v2[1], v1[2], v3[3]), Product(v1[1], v2[2], v3[3]) >>

RECURSIVE SumsRepresentable(_, _)
SumsRepresentable(sum, terms) ==
    IF terms = <<>> THEN TRUE
    ELSE /\ Representable(sum + Head(terms))
         /\ SumsRepresentable(sum + Head(terms), Tail(terms))

\* neither winding of the triangle makes a product or a partial sum round
NoRounding(v1, v2, v3) ==
    /\ ProductExact(v3[1], v2[2], v1[3])
    /\ ProductExact(v2[1], v3[2], v1[3])
    /\ ProductExact(v3[1], v1[2], v2[3])
    /\ ProductExact(v1[1], v3[2], v2[3])
    /\ ProductExact(v2[1], v1[2], v3[3])
    /\ ProductExact(v1[1], v2[2], v3[3])
    /\ SumsRepresentable(0, Terms(v1, v2, v3))
    /\ SumsRepresentable(0, Terms(v3, v2, v1))

\* the next triangle of the mesh, and the same triangle reversed
FoldTriangle(v1, v2, v3) ==
    /\ volN < MaxTriangles
    /\ volFwd' = SignedVolumeOfTriangle(volFwd, v1, v2, v3)
    /\ volRev' = SignedVolumeOfTriangle(volRev, v3, v2, v1)
    /\ volN' = volN + 1
    /\ volExact' = (volExact /\ NoRounding(v1, v2, v3))
    /\ UNCHANGED readerVars

----------------------------------------------------------------------------
(* Specifications *)

Init ==
    /\ normals = <<>>
    /\ vertices = <<>>
    /\ triangles = <<>>
    /\ bytecount = <<>>
    /\ readers = <<>>
    /\ input = <<>>
    /\ volFwd = 0
    /\ volRev = 0
    /\ volN = 0
    /\ volExact = TRUE

\* a process that constructs up to MaxReaders readers
Next ==
    \/ \E p \in SessionPaths, o \in BOOLEAN : New(p, o)
    \/ \E present \in BOOLEAN, n \in Counts : ReadLength(present, n)
    \/ \E rec \in SessionTriangles, avail \in 0..5 : ReadTriangle(rec, avail)
    \/ Finish

Spec == Init /\ [][Next]_vars

\* a process that constructs a reader on a mesh file and then one on any path
PathNext ==
    \/ readers = <<>> /\ \E o \in BOOLEAN : New(GoodPath, o)
    \/ Len(readers) = 1 /\ \E p \in Paths, o \in BOOLEAN : New(p, o)
    \/ \E present \in BOOLEAN, n \in 0..1 : ReadLength(present, n)
    \/ \E rec \in SessionTriangles, avail \in {1, 5} : ReadTriangle(rec, avail)
    \/ Finish

PathSpec == Init /\ [][PathNext]_vars

\* a process that constructs one reader, on any mesh over PassVertices
PassNext ==
    \/ readers = <<>> /\ \E o \in BOOLEAN : New(GoodPath, o)
    \/ \E present \in BOOLEAN, n \in Counts : ReadLength(present, n)
    \/ \E rec \in PassTriangles, avail \in 0..5 : ReadTriangle(rec, avail)
    \/ Finish

PassSpec == Init /\ [][PassNext]_vars

\* a mesh of up to MaxTriangles triangles over VolVertices
VolumeNext == \E v1, v2, v3 \in VolVertices : FoldTriangle(v1, v2, v3)

VolumeSpec == Init /\ [][VolumeNext]_vars

----------------------------------------------------------------------------
(* Vocabulary of the claims *)

Readers == 1..Len(readers)

Returned(k) == readers[k].pc = "returned"
Raised(k) == readers[k].pc = "raised"

\* the pass of reader k ran to its end
Completed(k) == Returned(k) /\ ~readers[k].failed

\* reader k's file holds the count N >= 0 and at least N complete records
ValidInput(k) ==
    /\ input[k].hasCount
    /\ input[k].count >= 0
    /\ Len(input[k].recs) = input[k].count
    /\ ~input[k].eof

\* reader k's file holds the count but ends before the last record it announces
Truncated(k) == input[k].hasCount /\ input[k].eof

RECURSIVE Flatten(_)
Flatten(recs) ==
    IF recs = <<>> THEN <<>>
    ELSE <<Head(recs).v1, Head(recs).v2, Head(recs).v3>> \o Flatten(Tail(recs))

\* the vertices of reader k's file in file order: those of the complete
\* records, and all of them including those of the record the file ends in
RecordVertices(k) == Flatten(input[k].recs)
ConsumedVertices(k) ==
    RecordVertices(k) \o
        (IF input[k].part = <<>> THEN <<>> ELSE Tail(input[k].part))

MaxOf(S) == CHOOSE m \in S : \A x \in S : x <= m
MinOf(S) == CHOOSE m \in S : \A x \in S : m <= x
Components(vs, a) == { vs[j][a] : j \in 1..Len(vs) }

\* the six extents, the centroid and the volume of a reader
Accumulated(r) ==
    << r.xPos, r.xNeg, r.yPos, r.yNeg, r.zPos, r.zNeg, r.centroid, r.volume >>

\* a pass over the records recs, from the reader r
RECURSIVE PassOver(_, _)
PassOver(r, recs) ==
    IF recs = <<>> THEN r
    ELSE LET t  == Head(recs)
             a3 == ReadVertex(ReadVertex(ReadVertex(r, t.v1), t.v2), t.v3)
         IN  PassOver([a3 EXCEPT !.volume =
                          SignedVolumeOfTriangle(a3.volume, t.v1, t.v2, t.v3)],
                      Tail(recs))

\* c_1 = v_1, c_i = (c_(i-1) + v_i) / 2
RECURSIVE Recurrence(_)
Recurrence(vs) ==
    IF Len(vs) = 1 THEN vs[1]
    ELSE LET c == Recurrence(SubSeq(vs, 1, Len(vs) - 1))
             v == vs[Len(vs)]
         IN  << FDiv(FAdd(c[1], v[1]), 2), FDiv(FAdd(c[2], v[2]), 2),
                FDiv(FAdd(c[3], v[3]), 2) >>

\* the path ends in ".stl" in some letter case
StlSuffixAnyCase(path) ==
    /\ Len(path) >= 4
    /\ path[Len(path) - 3] = "."
    /\ path[Len(path) - 2] \in {"s", "S"}
    /\ path[Len(path) - 1] \in {"t", "T"}
    /\ path[Len(path)] \in {"l", "L"}

RECURSIVE RecordCount(_)
RecordCount(k) == IF k = 0 THEN 0 ELSE Len(input[k].recs) + RecordCount(k - 1)

----------------------------------------------------------------------------
(* Claims *)

\* C1: for every reader constructed on a valid input, once construction has
\* returned, len(GetVertices()) = 3 * GetNumberOfTriangles() and
\* len(GetNormals()) = len(GetTriangles()) = len(GetByteCount()) =
\* GetNumberOfTriangles(), for each reader of a sequence of constructions.
C1Claim ==
    \A k \in Readers :
        (Returned(k) /\ ValidInput(k)) =>
            /\ Len(GetVertices(k)) = 3 * GetNumberOfTriangles(k)
            /\ Len(GetNormals(k)) = GetNumberOfTriangles(k)
            /\ Len(GetTriangles(k)) = GetNumberOfTriangles(k)
            /\ Len(GetByteCount(k)) = GetNumberOfTriangles(k)

\* C2: constructing a reader on a truncated file ends with the failed flag
\* set and an error kind of its own (neither InvalidExtension nor OpenFailed),
\* the error is recorded on the reader and not raised to the caller, and the
\* sequences hold as many entries as triangles were fully read.
C2Claim ==
    \A k \in Readers :
        Truncated(k) =>
            /\ Returned(k)
            /\ readers[k].failed
            /\ readers[k].errorCode \notin {InvalidExtension, OpenFailed}
            /\ Len(GetNormals(k)) = Len(input[k].recs)
            /\ Len(GetTriangles(k)) = Len(input[k].recs)
            /\ Len(GetByteCount(k)) = Len(input[k].recs)

\* C3: a reader constructed on a path that does not end in ".stl" (in any
\* letter case) has failed with error code 1 and has attempted no decode: its
\* file was never opened or read, the sequences hold exactly the records the
\* other readers decoded, and its triangle count, volume, extents, width,
\* height, depth and centroid are zero.  A path that ends in ".stl" in any
\* letter case is not rejected for its extension.
C3Theorem ==
    \A k \in Readers :
        IF StlSuffixAnyCase(readers[k].path)
        THEN ~(readers[k].failed /\ readers[k].errorCode = InvalidExtension)
        ELSE /\ readers[k] =
                  [NewReader(readers[k].path) EXCEPT
                      !.failed = TRUE, !.errorCode = InvalidExtension,
                      !.pc = "returned"]
             /\ readers[k].file = "none"
             /\ input[k] = NoInput
             /\ Len(normals) = RecordCount(Len(readers))
             /\ Len(vertices) = 3 * RecordCount(Len(readers))
             /\ Len(triangles) = RecordCount(Len(readers))
             /\ Len(bytecount) = RecordCount(Len(readers))

\* a reader rejected for its extension, after another reader decoded a record
C3Witness ==
    \E k \in Readers :
        /\ ~StlSuffixAnyCase(readers[k].path)
        /\ Len(readers[k].path) >= 4
        /\ readers[k].failed
        /\ Len(normals) > 0

\* the results a reader returns
Results(k) ==
    << GetNormals(k), GetVertices(k), GetTriangles(k), GetByteCount(k),
       GetNumberOfTriangles(k), GetVolume(k), GetDimensions(k), GetCentroid(k) >>

\* C4: once a reader's construction has returned, no later operation changes
\* the sequences and scalars it returns.
C4Claim ==
    [][\A k \in Readers : Returned(k) => Results(k)' = Results(k)]_vars

\* C5: in no final state of a construction (the pass completed, or aborted at
\* the end of a truncated file) is the reader's file handle still open.
C5Claim ==
    \A k \in Readers :
        (Returned(k) \/ Raised(k)) => readers[k].file # "open"

\* C6: xPos, yPos, zPos >= 0 and xNeg, yNeg, zNeg <= 0 after every vertex, and
\* after a completed pass width = xPos - xNeg, height = yPos - yNeg,
\* depth = zPos - zNeg, each >= 0.
C6Theorem ==
    \A k \in Readers :
        LET r == readers[k]
        IN  /\ r.xPos >= 0 /\ r.yPos >= 0 /\ r.zPos >= 0
            /\ r.xNeg <= 0 /\ r.yNeg <= 0 /\ r.zNeg <= 0
            /\ Completed(k) =>
                  /\ r.width = FSub(r.xPos, r.xNeg) /\ r.width >= 0
                  /\ r.height = FSub(r.yPos, r.yNeg) /\ r.height >= 0
                  /\ r.depth = FSub(r.zPos, r.zNeg) /\ r.depth >= 0

\* a completed pass over a mesh with vertices on both sides of every axis
C6Witness ==
    \E k \in Readers :
        /\ Completed(k)
        /\ readers[k].xPos > 0 /\ readers[k].xNeg < 0
        /\ readers[k].yPos > 0 /\ readers[k].yNeg < 0
        /\ readers[k].zPos > 0 /\ readers[k].zNeg < 0
        /\ readers[k].width > readers[k].xPos

\* C7: reversing the winding of every triangle of a mesh negates the volume.
C7Claim == volRev = -volFwd

\* C7, amended: reversing the winding of every triangle of a mesh negates the
\* volume whenever no product and no partial sum of the six-term expansion of
\* any triangle, in either winding, is rounded.
C7Theorem == volExact => volRev = -volFwd

\* a mesh of non-zero volume, and its reversal, folded without rounding
C7Witness == volN >= 1 /\ volExact /\ volFwd # 0

\* C8: after a pass over the vertices v_1..v_k (k >= 1) the centroid is c_k of
\* c_1 = v_1, c_i = (c_(i-1) + v_i) / 2.
C8Claim ==
    \A k \in Readers :
        (Completed(k) /\ RecordVertices(k) # <<>>) =>
            GetCentroid(k) = Recurrence(RecordVertices(k))

\* C9: on every axis the positive extent is max(0, the largest component) and
\* the negative extent is min(0, the least component), over the vertices
\* processed.
C9Theorem ==
    \A k \in Readers :
        LET r  == readers[k]
            vs == ConsumedVertices(k)
        IN  /\ r.xPos = MaxOf({0} \cup Components(vs, 1))
            /\ r.xNeg = MinOf({0} \cup Components(vs, 1))
            /\ r.yPos = MaxOf({0} \cup Components(vs, 2))
            /\ r.yNeg = MinOf({0} \cup Components(vs, 2))
            /\ r.zPos = MaxOf({0} \cup Components(vs, 3))
            /\ r.zNeg = MinOf({0} \cup Components(vs, 3))

\* a completed pass over a mesh that lies on one side of the x axis only
C9Witness ==
    \E k \in Readers :
        /\ Completed(k)
        /\ Len(input[k].recs) = 2
        /\ readers[k].xPos > 0 /\ readers[k].xNeg = 0
        /\ readers[k].yNeg < 0 /\ readers[k].yPos = 0

\* C10: when the file ends inside record k+1, the sequences, the extents, the
\* centroid and the volume are those of a pass over the first k records.
C10Claim ==
    \A k \in Readers :
        Truncated(k) =>
            /\ Len(GetNormals(k)) = Len(input[k].recs)
            /\ GetVertices(k) = RecordVertices(k)
            /\ Accumulated(readers[k]) =
                   Accumulated(PassOver(NewReader(readers[k].path), input[k].recs))

====
